---- MODULE Spec2Model ----
(***************************************************************************)
(* Model of src/src/mac_control.rs: MacControlMap, the in-memory map from  *)
(* mac id to a shared, lockable MacControl record, backed by a database.   *)
(* Every await of the source (a lock acquisition or a database call) is a  *)
(* step boundary, so concurrent tasks interleave exactly where the async   *)
(* code can suspend.                                                       *)
(***************************************************************************)
EXTENDS Integers, Sequences, FiniteSets, TLC

\* ---------------------------------------------------------------- bounds
NumTasks == 2
MaxOps == 4

Tasks == 1..NumTasks
Macs == {"m1"}
AllowedIds == {"a1", "a2"}
Addrs == {"10.0.0.1:21116"}

\* ------------------------------------------------------------ data model
\* Option::None for an Option<LockMacControl>; record instances (Arc
\* allocations) are the positive indices of heap.
NoInst == 0
\* String::new()
EmptyString == ""
\* Ok(None) of a database lookup
NoRow == "norow"
DefaultAddr == "0.0.0.0:0"

\* impl Default for MacControl
MacControlDefault ==
    [socket_addr |-> DefaultAddr, mac_id |-> EmptyString,
     allowed_id |-> EmptyString, writer |-> 0]

\* Variant: the row's allowed_id is not carried over.
MacControlFromRow_mac_id_only(m, a) == [MacControlDefault EXCEPT !.mac_id = m]

\* MacControl { mac_id: v.mac_id, allowed_id: v.allowed_id, ..Default::default() }
MacControlFromRow(m, a) ==
    [MacControlDefault EXCEPT !.mac_id = m, !.allowed_id = a]

VARIABLES
    map,        \* MacControlMap.map: mac id -> record instance (NoInst: no key)
    heap,       \* the Arc<RwLock<MacControl>> allocations, by instance
    db,         \* MacControlMap.db: mac id -> stored allowed_id, or NoRow
    mapReaders, \* tasks holding map.read()
    mapWriter,  \* task holding map.write(), or 0
    tk,         \* per task: position, arguments, locals, the handle it keeps
    last,       \* what the step just taken returned, and to whom (NoReturn: nothing)
    nOps,       \* operations started so far
    aliased,    \* how `insert(.., mac.clone())` is built, see InsertedInstance
    hist        \* history of completed calls; hist.rec says what is recorded

vars == <<map, heap, db, mapReaders, mapWriter, tk, last, nOps, aliased, hist>>

AnyMac == CHOOSE m \in Macs : TRUE

\* A task between two calls: only the handle it was last given stays.
TaskIdle(h, hm) ==
    [pc |-> "idle", op |-> "none", mac |-> AnyMac, aid |-> EmptyString,
     hnd |-> NoInst, v |-> NoRow, out |-> "none", handle |-> h, handleMac |-> hm]

\* The step just taken returned from no operation.
NoReturn ==
    [t |-> 0, op |-> "none", mac |-> AnyMac, res |-> NoInst,
     ret |-> "none", isin |-> FALSE, out |-> "none"]

\* No history recorded yet; rec is "off" (not even the returns are recorded),
\* "none", "hits" or "all", and never changes.
NoHistory(rec) ==
    [rec |-> rec,
     lastReg |-> [m \in Macs |-> EmptyString],
     getHit |-> [m \in Macs |-> 0],
     insOk |-> [m \in Macs |-> FALSE],
     expect |-> [t \in Tasks |-> EmptyString],
     batch |-> [m \in Macs |-> [n |-> 0, ok |-> TRUE, hnd |-> NoInst]]]

\* MacControlMap::new(): an empty map over a database that may hold rows.
New ==
    /\ map = [m \in Macs |-> NoInst]
    /\ heap = << >>
    /\ db \in [Macs -> {NoRow, "a1"}]
    /\ mapReaders = {}
    /\ mapWriter = 0
    /\ tk = [t \in Tasks |-> TaskIdle(NoInst, AnyMac)]
    /\ last = NoReturn
    /\ nOps = 0
    /\ aliased \in BOOLEAN

Init == New /\ hist = NoHistory("none")

\* ------------------------------------------------------------- database
\* crate::database is not part of the sources under study; its four calls
\* are modelled from the storage contract (one row per mac id).  Every call
\* may fail: out = "err" is Err(..), out = "ok" is Ok(..).
DbOutcomes == {"ok", "err"}

\* find_by_mac_id: Ok(Some(row)) / Ok(None)
get_mac_id(d, m) == d[m]

\* find_by_mac_and_allowed_id: the row only if both columns match
db_get_allowed_id_with_mac_id(d, m, a) == IF d[m] = a THEN d[m] ELSE NoRow

\* insert_binding: afterwards the store holds the row (m, a)
insert_mac(d, m, a) == [d EXCEPT ![m] = a]

\* update_binding: rewrites allowed_id of the row of m, if there is one
update_mac(d, m, a) == IF d[m] = NoRow THEN d ELSE [d EXCEPT ![m] = a]

\* ---------------------------------------------------------------- locks
\* tokio RwLock on the map: read() is granted while no writer holds it,
\* write() while nobody holds it.  A guard is taken and dropped inside one
\* step whenever the source awaits nothing while it holds the guard.
CanRead == mapWriter = 0
CanWrite == mapWriter = 0 /\ mapReaders = {}

\* Dropping a read guard of the map.
read_unlock(readers, t) == readers \ {t}

\* Variant: the write guard of the map is never dropped.
write_unlock_never(t) == t

\* Dropping the write guard of the map.
write_unlock(t) == 0

\* --------------------------------------------------------------- helpers
\* A task entering operation o on mac id m, up to its first await at p.
Enter(rec, o, m, p) == [rec EXCEPT !.pc = p, !.op = o, !.mac = m]

\* An Option<LockMacControl> is handed back to the caller, who keeps a Some.
Returned(rec, r) ==
    TaskIdle(IF r = NoInst THEN rec.handle ELSE r,
             IF r = NoInst THEN rec.handleMac ELSE rec.mac)

\* The return of a handle-valued operation, as recorded in last: r is
\* returned to t; out is the outcome of the database call the operation made,
\* if it made one.
Result(t, rec, r, out) ==
    [t |-> t, op |-> rec.op, mac |-> rec.mac, res |-> r,
     ret |-> "none", isin |-> FALSE, out |-> out]

\* What last keeps of a return x: nothing when returns are not recorded.
Recorded(x) == IF hist.rec = "off" THEN NoReturn ELSE x

\* get() is also the first statement of get_or(): `if let Some(p) =
\* self.get(mac_id).await { return p; }`, otherwise get_or goes on.
GetOrGoesOn(rec, r) == rec.op = "get_or" /\ r = NoInst

\* get returns r to t (or to get_or, which returns a Some at once).
AfterGet(t, rec, r, out) ==
    IF GetOrGoesOn(rec, r)
    THEN /\ tk' = [tk EXCEPT ![t] = [rec EXCEPT !.pc = "or_wlock", !.out = out]]
         /\ last' = NoReturn
    ELSE /\ tk' = [tk EXCEPT ![t] = Returned(rec, r)]
         /\ last' = Recorded(Result(t, rec, r, out))

\* Variant: the outcome of the lookup is not looked at.
LookupRow_unchecked(out, row) == row

\* `if let Ok(Some(v))`: a failed lookup and a missing row are both a miss.
LookupRow(out, row) == IF out = "ok" THEN row ELSE NoRow

\* `self.map.write().await.insert(mac_id.to_owned(), mac.clone())` after
\* `let mac_control = Arc::new(RwLock::new(mac))`.  As written the argument
\* is the record value, not the handle; the statement builds only as either
\* the handle itself (alias) or a second record holding a copy of the value.
\* Both builds are kept (the variable aliased, fixed from Init on, says which
\* one runs): i is the handle returned, the result is what the map gets.
InsertedInstance(i, alias) == IF alias THEN i ELSE i + 1

\* Variant: the record is handed out without being put in the map.
map_insert_skipped(w, m, i) == w

\* HashMap::insert
map_insert(w, m, i) == [w EXCEPT ![m] = i]

\* The allocations of one storage hit: the handle, and the copy if any.
AllocFromRow(hp, m, a, alias) ==
    IF alias THEN Append(hp, MacControlFromRow(m, a))
    ELSE hp \o <<MacControlFromRow(m, a), MacControlFromRow(m, a)>>

\* ------------------------------------------------------------- history
\* What a step completes, read off the step itself (one task moves per step).
\* Operation o on mac id m returns to t in this step; last' holds the result.
OpReturns(t, o, m) ==
    /\ last'.t = t
    /\ last'.op = o
    /\ last'.mac = m

\* t enters operation o on mac id m in this step and is left at position p.
OpEnters(t, o, m, p) ==
    /\ tk[t].pc = "idle"
    /\ tk'[t].pc = p
    /\ tk'[t].op = o
    /\ tk'[t].mac = m

\* An update_pk for mac id m is between its write to the record and its return.
RegRunning(m) ==
    \E u \in Tasks : tk[u].pc \in {"upd_insert", "upd_update"} /\ tk[u].mac = m

\* lastReg[m]: the allowed_id of the latest update_pk that returned for m, if
\*             it returned OK (else empty).
\* getHit[m]:  how many get(m) have returned Some (counted up to two).
\* insOk[m]:   some update_pk for m, the store holding no row for m, has
\*             returned OK after insert_mac.
\* expect[t]:  for a get(m) in flight, lastReg[m] as of its call, as long as
\*             no update_pk for m was running then or has run since.
ObserveLastReg(m) ==
    IF \E t \in Tasks : OpReturns(t, "update_pk", m)
    THEN IF last'.ret = "OK" THEN tk[last'.t].aid ELSE EmptyString
    ELSE hist.lastReg[m]

ObserveGetHit(m) ==
    IF (\E t \in Tasks : OpReturns(t, "get", m)) /\ last'.res # NoInst /\ hist.getHit[m] < 2
    THEN hist.getHit[m] + 1
    ELSE hist.getHit[m]

ObserveInsOk(m) ==
    \/ hist.insOk[m]
    \/ \E t \in Tasks : OpReturns(t, "update_pk", m) /\ tk[t].pc = "upd_insert"
                          /\ db[m] = NoRow /\ last'.ret = "OK"

ObserveExpect(t) ==
    IF \E m \in Macs : OpEnters(t, "get", m, "get_db")
    THEN IF RegRunning(tk'[t].mac) THEN EmptyString ELSE hist.lastReg[tk'[t].mac]
    ELSE IF tk'[t].pc = "idle" THEN EmptyString
    ELSE IF \E u \in Tasks : tk'[u].pc # tk[u].pc /\ tk[u].mac = tk[t].mac
                               /\ "update_pk" \in {tk[u].op, tk'[u].op}
    THEN EmptyString
    ELSE hist.expect[t]

\* batch[m]: the update_pk calls for m since the last moment none was running:
\*           how many (counted up to two), whether all that returned so far
\*           returned OK, and the one handle they all went through (NoInst
\*           once two of them went through different handles).
ObserveBatch(m) ==
    LET b == hist.batch[m] IN
    IF \E t \in Tasks : OpEnters(t, "update_pk", m, tk'[t].pc)
    THEN LET h == tk'[CHOOSE t \in Tasks : OpEnters(t, "update_pk", m, tk'[t].pc)].hnd IN
         IF RegRunning(m)
         THEN [n |-> 2, ok |-> b.ok, hnd |-> IF b.hnd = h THEN h ELSE NoInst]
         ELSE [n |-> 1, ok |-> TRUE, hnd |-> h]
    ELSE IF \E t \in Tasks : OpReturns(t, "update_pk", m)
    THEN [b EXCEPT !.ok = b.ok /\ last'.ret = "OK"]
    ELSE b

\* Every step ends by recording what it completed.
Observe ==
    hist' = [rec |-> hist.rec,
             lastReg |-> IF hist.rec = "all"
                         THEN [m \in Macs |-> ObserveLastReg(m)] ELSE hist.lastReg,
             getHit |-> IF hist.rec \in {"hits", "all"}
                        THEN [m \in Macs |-> ObserveGetHit(m)] ELSE hist.getHit,
             insOk |-> IF hist.rec = "all"
                       THEN [m \in Macs |-> ObserveInsOk(m)] ELSE hist.insOk,
             expect |-> IF hist.rec = "all"
                        THEN [t \in Tasks |-> ObserveExpect(t)] ELSE hist.expect,
             batch |-> IF hist.rec = "all"
                       THEN [m \in Macs |-> ObserveBatch(m)] ELSE hist.batch]

\* ------------------------------------------------------------------ get
\* let p = self.map.read().await.get(mac_id).cloned(); the read guard is a
\* temporary of the statement.  A hit returns p, a miss goes on to the
\* database call.
get_read(t, o, m) ==
    /\ tk[t].pc = "idle"
    /\ nOps < MaxOps
    /\ nOps' = nOps + 1
    /\ CanRead
    /\ mapReaders' = read_unlock(mapReaders \cup {t}, t)
    /\ LET p == map[m]
           rec == Enter(tk[t], o, m, "get_db")
       IN IF p # NoInst
          THEN AfterGet(t, rec, p, "none")
          ELSE tk' = [tk EXCEPT ![t] = rec] /\ last' = NoReturn
    /\ UNCHANGED <<map, heap, db, mapWriter, aliased>>

get_start(t, m) == get_read(t, "get", m) /\ Observe

\* self.db.get_mac_id(mac_id).await
get_db(t) ==
    /\ tk[t].pc = "get_db"
    /\ \E out \in DbOutcomes :
        LET row == LookupRow(out, get_mac_id(db, tk[t].mac)) IN
        IF row # NoRow
        THEN /\ tk' = [tk EXCEPT ![t] = [@ EXCEPT !.v = row, !.out = out, !.pc = "get_wlock"]]
             /\ last' = NoReturn
        ELSE AfterGet(t, tk[t], NoInst, out)
    /\ UNCHANGED <<map, heap, db, mapReaders, mapWriter, nOps, aliased>>
    /\ Observe

\* self.map.write().await.insert(mac_id.to_owned(), mac.clone());
\* return Some(mac_control);
get_insert(t) ==
    /\ tk[t].pc = "get_wlock"
    /\ CanWrite
    /\ mapWriter' = write_unlock(t)
    /\ LET i == Len(heap) + 1 IN
        /\ heap' = AllocFromRow(heap, tk[t].mac, tk[t].v, aliased)
        /\ map' = map_insert(map, tk[t].mac, InsertedInstance(i, aliased))
        /\ AfterGet(t, tk[t], i, tk[t].out)
    /\ UNCHANGED <<db, mapReaders, nOps, aliased>>
    /\ Observe

\* ------------------------------------------- get_allowed_id_with_mac_id
gba_start(t, m, a) ==
    /\ tk[t].pc = "idle"
    /\ nOps < MaxOps
    /\ nOps' = nOps + 1
    /\ tk' = [tk EXCEPT ![t] =
                [Enter(@, "get_allowed_id_with_mac_id", m, "gba_db") EXCEPT !.aid = a]]
    /\ last' = NoReturn
    /\ UNCHANGED <<map, heap, db, mapReaders, mapWriter, aliased>>
    /\ Observe

\* Variant: a miss in the store falls back on the map.
gba_none_from_map(w, m) == w[m]

\* the trailing `None`: the map is not looked at
gba_none(w, m) == NoInst

\* self.db.get_allowed_id_with_mac_id(mac_id, allowed_id).await
gba_db(t) ==
    /\ tk[t].pc = "gba_db"
    /\ \E out \in DbOutcomes :
        LET row == LookupRow(out, db_get_allowed_id_with_mac_id(db, tk[t].mac, tk[t].aid)) IN
        IF row # NoRow
        THEN /\ tk' = [tk EXCEPT ![t] = [@ EXCEPT !.v = row, !.out = out, !.pc = "gba_wlock"]]
             /\ last' = NoReturn
        ELSE /\ tk' = [tk EXCEPT ![t] = Returned(@, gba_none(map, tk[t].mac))]
             /\ last' = Recorded(Result(t, tk[t], gba_none(map, tk[t].mac), out))
    /\ UNCHANGED <<map, heap, db, mapReaders, mapWriter, nOps, aliased>>
    /\ Observe

\* self.map.write().await.insert(mac_id.to_owned(), mac.clone());
\* return Some(mac_control);
gba_insert(t) ==
    /\ tk[t].pc = "gba_wlock"
    /\ CanWrite
    /\ mapWriter' = write_unlock(t)
    /\ LET i == Len(heap) + 1 IN
        /\ heap' = AllocFromRow(heap, tk[t].mac, tk[t].v, aliased)
        /\ map' = map_insert(map, tk[t].mac, InsertedInstance(i, aliased))
        /\ tk' = [tk EXCEPT ![t] = Returned(@, i)]
        /\ last' = Recorded(Result(t, tk[t], i, tk[t].out))
    /\ UNCHANGED <<db, mapReaders, nOps, aliased>>
    /\ Observe

\* --------------------------------------------------------------- get_or
\* `if let Some(p) = self.get(mac_id).await { return p; }`: the body of get
\* runs first (get_db and get_insert above serve both callers).
get_or_start(t, m) == get_read(t, "get_or", m) /\ Observe

\* Variant: no re-check, the default record is always inserted.
get_or_no_recheck(w, m) == NoInst

\* `if let Some(p) = w.get(mac_id)`: the re-check under the write lock
get_or_recheck(w, m) == w[m]

\* let mut w = self.map.write().await; return p.clone(), or insert
\* LockMacControl::default() and return it; w is dropped on return, and
\* nothing is awaited while it is held.
get_or_check(t) ==
    /\ tk[t].pc = "or_wlock"
    /\ CanWrite
    /\ mapWriter' = write_unlock(t)
    /\ LET p == get_or_recheck(map, tk[t].mac)
           tmp == Len(heap) + 1
       IN IF p # NoInst
          THEN /\ tk' = [tk EXCEPT ![t] = Returned(@, p)]
               /\ last' = Recorded(Result(t, tk[t], p, tk[t].out))
               /\ UNCHANGED <<map, heap>>
          ELSE /\ heap' = Append(heap, MacControlDefault)
               /\ map' = map_insert(map, tk[t].mac, tmp)
               /\ tk' = [tk EXCEPT ![t] = Returned(@, tmp)]
               /\ last' = Recorded(Result(t, tk[t], tmp, tk[t].out))
    /\ UNCHANGED <<db, mapReaders, nOps, aliased>>
    /\ Observe

\* ------------------------------------------------------------ update_pk
\* let mut w = mac_control.write().await;
update_pk_lock(r, t) == [r EXCEPT !.writer = t]

\* Variant: the assignment also overwrites the record's mac_id.
update_pk_assign_mac_id(r, a, addr) ==
    [r EXCEPT !.socket_addr = addr, !.allowed_id = a, !.mac_id = a]

\* w.socket_addr = addr; w.allowed_id = allowed_id;
update_pk_assign(r, a, addr) == [r EXCEPT !.socket_addr = addr, !.allowed_id = a]

\* Variant: the guard outlives the block and is held across the database call.
update_pk_guard_kept(r) == r

\* the closing brace of the block: w is dropped
update_pk_unlock(r) == [r EXCEPT !.writer = 0]

\* `if mac.is_empty()` chooses insert_mac, else update_mac
update_pk_branch(mac) == IF mac = EmptyString THEN "upd_insert" ELSE "upd_update"

\* The caller passes the handle it got from get / get_or /
\* get_allowed_id_with_mac_id for the same mac id.  The block of lines 87-94
\* runs under the record's write guard, which lives inside the block; nothing
\* is awaited while it is held.  Then the database call is issued.
update_pk_start(t, a, addr) ==
    /\ tk[t].pc = "idle"
    /\ tk[t].handle # NoInst
    /\ nOps < MaxOps
    /\ nOps' = nOps + 1
    /\ heap[tk[t].handle].writer = 0
    /\ LET h == tk[t].handle
           mac == heap[h].mac_id
       IN /\ heap' = [heap EXCEPT ![h] =
                        update_pk_unlock(update_pk_assign(update_pk_lock(@, t), a, addr))]
          /\ tk' = [tk EXCEPT ![t] =
                      [Enter(@, "update_pk", tk[t].handleMac, update_pk_branch(mac))
                          EXCEPT !.aid = a, !.hnd = h]]
    /\ last' = NoReturn
    /\ UNCHANGED <<map, db, mapReaders, mapWriter, aliased>>
    /\ Observe

\* Variant: the error is logged and the function falls through to OK.
update_pk_result_ok(out) == "OK"

\* Err(err) => return SERVER_ERROR; otherwise fall through to OK
update_pk_result(out) == IF out = "err" THEN "SERVER_ERROR" ELSE "OK"

\* update_pk hands its result back to t.
update_pk_return(t, out) ==
    /\ tk' = [tk EXCEPT ![t] = TaskIdle(@.handle, @.handleMac)]
    /\ last' = Recorded([Result(t, tk[t], NoInst, out) EXCEPT !.ret = update_pk_result(out)])

\* self.db.insert_mac(&mac_id, &allowed_id).await
update_pk_insert(t) ==
    /\ tk[t].pc = "upd_insert"
    /\ \E out \in DbOutcomes :
        /\ db' = IF out = "ok" THEN insert_mac(db, tk[t].mac, tk[t].aid) ELSE db
        /\ update_pk_return(t, out)
    /\ UNCHANGED <<map, heap, mapReaders, mapWriter, nOps, aliased>>
    /\ Observe

\* self.db.update_mac(&mac_id, &allowed_id).await
update_pk_update(t) ==
    /\ tk[t].pc = "upd_update"
    /\ \E out \in DbOutcomes :
        /\ db' = IF out = "ok" THEN update_mac(db, tk[t].mac, tk[t].aid) ELSE db
        /\ update_pk_return(t, out)
    /\ UNCHANGED <<map, heap, mapReaders, mapWriter, nOps, aliased>>
    /\ Observe

\* ------------------------------------------ get_in_memory / is_in_memory
\* self.map.read().await.get(mac_id).cloned()
get_in_memory(t, m) ==
    /\ tk[t].pc = "idle"
    /\ nOps < MaxOps
    /\ nOps' = nOps + 1
    /\ CanRead
    /\ mapReaders' = read_unlock(mapReaders \cup {t}, t)
    /\ LET rec == Enter(tk[t], "get_in_memory", m, "idle") IN
        /\ tk' = [tk EXCEPT ![t] = Returned(rec, map[m])]
        /\ last' = Recorded(Result(t, rec, map[m], "none"))
    /\ UNCHANGED <<map, heap, db, mapWriter, aliased>>
    /\ Observe

\* Variant: the key is reported present without a lookup.
contains_key_always(w, m) == TRUE

\* HashMap::contains_key
contains_key(w, m) == w[m] # NoInst

\* self.map.read().await.contains_key(mac_id)
is_in_memory(t, m) ==
    /\ tk[t].pc = "idle"
    /\ nOps < MaxOps
    /\ nOps' = nOps + 1
    /\ CanRead
    /\ mapReaders' = read_unlock(mapReaders \cup {t}, t)
    /\ LET rec == Enter(tk[t], "is_in_memory", m, "idle") IN
        /\ tk' = [tk EXCEPT ![t] = TaskIdle(tk[t].handle, tk[t].handleMac)]
        /\ last' = Recorded([Result(t, rec, NoInst, "none") EXCEPT !.isin = contains_key(map, m)])
    /\ UNCHANGED <<map, heap, db, mapWriter, aliased>>
    /\ Observe

\* -------------------------------------------------------- specification
Step(t) ==
    \/ \E m \in Macs : get_start(t, m)
    \/ get_db(t)
    \/ get_insert(t)
    \/ \E m \in Macs, a \in AllowedIds : gba_start(t, m, a)
    \/ gba_db(t)
    \/ gba_insert(t)
    \/ \E m \in Macs : get_or_start(t, m)
    \/ get_or_check(t)
    \/ \E a \in AllowedIds, addr \in Addrs : update_pk_start(t, a, addr)
    \/ update_pk_insert(t)
    \/ update_pk_update(t)
    \/ \E m \in Macs : get_in_memory(t, m)
    \/ \E m \in Macs : is_in_memory(t, m)

Next == \E t \in Tasks : Step(t)

\* The program alone: no history is kept.
Spec == Init /\ [][Next]_vars

\* The program with the history of its calls recorded.
InitHist == New /\ hist = NoHistory("all")

SpecHist == InitHist /\ [][Next]_vars

\* The same, recording getHit alone.
InitGet == New /\ hist = NoHistory("hits")

SpecGet == InitGet /\ [][Next]_vars

\* The steps that take a started operation of t further: a database call
\* returns, or the write lock of the map is granted.
Continue(t) ==
    \/ get_db(t)
    \/ get_insert(t)
    \/ gba_db(t)
    \/ gba_insert(t)
    \/ get_or_check(t)
    \/ update_pk_insert(t)
    \/ update_pk_update(t)

\* The program under a fair scheduler: every database call returns, and a
\* task waiting for a lock that is free gets it.  Returns are not recorded.
InitFair == New /\ hist = NoHistory("off")

SpecFair == InitFair /\ [][Next]_vars /\ \A t \in Tasks : WF_vars(Continue(t))


\* =============================================================== claims
\* Positions at which a task awaits a database call.
DbWait == {"get_db", "gba_db", "upd_insert", "upd_update"}

\* t is the task that moves in this step.
Moves(t) == tk'[t] # tk[t] \/ last'.t = t

\* --------------------------------------------------------------- C1
\* What a get(m) called now may count on: the allowed_id of the latest
\* update_pk that returned for m, if it returned OK and no update_pk for m
\* is running.
Registered(m) == IF RegRunning(m) THEN EmptyString ELSE hist.lastReg[m]

\* C1: after an update_pk(m, a, handle, addr) that returned OK, a subsequent
\* get(m) returns a record whose allowed_id is a, as long as no other
\* update_pk for m runs or returns in between.
C1_GetSeesRegistered ==
    [][\A t \in Tasks, m \in Macs :
         OpReturns(t, "get", m) =>
            LET a == IF tk[t].pc = "idle" THEN Registered(m) ELSE hist.expect[t]
            IN a # EmptyString =>
                 /\ last'.res # NoInst
                 /\ heap'[last'.res].allowed_id = a]_vars

\* --------------------------------------------------------------- C2
\* C2: while the store has no row for m, every handle for m that a caller
\* holds is the one record in the map under m, and no second record was
\* created: concurrent first-time get_or(m) calls all receive one instance.
C2_GetOrOneInstance ==
    \A m \in Macs :
        db[m] = NoRow =>
            /\ \A t \in Tasks :
                  tk[t].handle # NoInst /\ tk[t].handleMac = m => tk[t].handle = map[m]
            /\ Len(heap) <= Cardinality({k \in Macs : map[k] # NoInst})

\* Two get_or calls, and no other call, have been made; the one that returned
\* last had missed the map and the store, and it holds the same instance as
\* the other caller.
C2_Witness ==
    /\ nOps = 2
    /\ last.op = "get_or"
    /\ last.out # "none"
    /\ db[last.mac] = NoRow
    /\ \E u \in Tasks \ {last.t} : tk[u].handle = last.res /\ tk[u].handle # NoInst

\* --------------------------------------------------------------- C3
\* C3: once an update_pk for a mac id m unknown to the store has gone through
\* insert_mac and returned OK, a further update_pk for m (through the handle
\* get_or / get hands out) issues update_mac, not insert_mac.
C3_SecondRegisterUpdates ==
    [][\A t \in Tasks, m \in Macs :
         hist.insOk[m] => ~OpEnters(t, "update_pk", m, "upd_insert")]_vars

\* --------------------------------------------------------------- C4
\* C4: update_pk makes one database call and returns: SERVER_ERROR exactly
\* when that call failed, OK exactly when it succeeded; the record written
\* before the call is left as written (and a failed call leaves the store as
\* it was, so cache and store may differ).
C4_RegisterStorageFailure ==
    [][\A t \in Tasks :
         /\ \A m \in Macs, p \in {"upd_insert", "upd_update"} :
               OpEnters(t, "update_pk", m, p) =>
                  /\ heap'[tk'[t].hnd].allowed_id = tk'[t].aid
                  /\ heap'[tk'[t].hnd].socket_addr \in Addrs
         /\ tk[t].pc \in {"upd_insert", "upd_update"} /\ Moves(t) =>
               /\ OpReturns(t, "update_pk", tk[t].mac)
               /\ tk'[t].pc = "idle"
               /\ last'.out = "err" <=> last'.ret = "SERVER_ERROR"
               /\ last'.out = "ok" <=> last'.ret = "OK"
               /\ heap' = heap
               /\ last'.out = "err" => db' = db]_vars

\* update_pk has returned SERVER_ERROR, the record shows the allowed_id it
\* wrote, and the store does not.
C4_Witness ==
    /\ last.op = "update_pk"
    /\ last.ret = "SERVER_ERROR"
    /\ tk[last.t].pc = "idle"
    /\ heap[tk[last.t].handle].allowed_id \in AllowedIds
    /\ heap[tk[last.t].handle].allowed_id # db[last.mac]
    /\ heap[tk[last.t].handle].socket_addr \in Addrs

\* --------------------------------------------------------------- C5
\* C5: get_allowed_id_with_mac_id(m, a) goes on to return a record only if
\* the store holds the row (m, a) when it is queried, the record it returns
\* carries m and a, and it returns None otherwise, whatever the map holds.
C5_GetByAllowedId ==
    [][\A t \in Tasks :
         tk[t].op = "get_allowed_id_with_mac_id" /\ Moves(t) =>
            /\ tk[t].pc = "gba_db" =>
                  /\ tk'[t].pc = "gba_wlock" => db[tk[t].mac] = tk[t].aid
                  /\ tk'[t].pc # "gba_wlock" =>
                        /\ OpReturns(t, "get_allowed_id_with_mac_id", tk[t].mac)
                        /\ last'.res = NoInst
                  /\ db[tk[t].mac] # tk[t].aid => tk'[t].pc = "idle"
                  /\ map' = map
            /\ tk[t].pc = "gba_wlock" =>
                  /\ OpReturns(t, "get_allowed_id_with_mac_id", tk[t].mac)
                  /\ last'.res # NoInst
                  /\ heap'[last'.res].allowed_id = tk[t].aid
                  /\ heap'[last'.res].mac_id = tk[t].mac]_vars

\* The store answered, get_allowed_id_with_mac_id returned None, and the map
\* holds an entry for the mac id.
C5_Witness ==
    /\ last.op = "get_allowed_id_with_mac_id"
    /\ last.out = "ok"
    /\ last.res = NoInst
    /\ map[last.mac] # NoInst
    /\ heap[map[last.mac]].allowed_id \in AllowedIds

\* --------------------------------------------------------------- C6
\* C6 as stated: is_in_memory(m) is false before any operation, and true
\* once a get(m), a get_or(m) or an update_pk for m has returned.
C6_InMemoryAfterAnyCall ==
    /\ nOps = 0 => \A m \in Macs : ~contains_key(map, m)
    /\ last.op \in {"get", "get_or", "update_pk"} => contains_key(map, last.mac)

\* C6 amended: is_in_memory(m) is false before any operation, and true once
\* a get(m) that returned a record, a get_or(m), or an update_pk for m (made
\* through a handle a lookup of m returned) has returned.
C6_InMemoryAfterHit ==
    /\ nOps = 0 => \A m \in Macs : ~contains_key(map, m)
    /\ \/ last.op = "get" /\ last.res # NoInst
       \/ last.op \in {"get_or", "update_pk"}
       => contains_key(map, last.mac)

\* A get has read the row from the store and returned the record.
C6_Witness ==
    /\ last.op = "get"
    /\ last.out = "ok"
    /\ last.res # NoInst
    /\ contains_key(map, last.mac)

\* --------------------------------------------------------------- C7
\* C7: once a get(m) has returned a record, no get(m) called later (by a
\* caller or by get_or) goes to the database.
C7_NoLookupAfterHit ==
    [][\A t \in Tasks, m \in Macs, o \in {"get", "get_or"} :
         hist.getHit[m] > 0 => ~OpEnters(t, o, m, "get_db")]_vars

\* A second get(m) has returned a record, and it made no database call.
C7_Witness ==
    /\ hist.getHit[last.mac] = 2
    /\ last.op = "get"
    /\ last.out = "none"
    /\ last.res # NoInst

\* --------------------------------------------------------------- C8
\* C8: every handle for m a caller holds is the record the map holds under m:
\* one record instance per mac id.
C8_OneInstancePerMac ==
    \A t \in Tasks :
        tk[t].handle # NoInst => tk[t].handle = map[tk[t].handleMac]

\* --------------------------------------------------------------- C9
\* C9: a task that awaits a database call holds neither the map lock (shared
\* or exclusive) nor the write lock of any record.
C9_NoLockAcrossStorage ==
    \A t \in Tasks :
        tk[t].pc \in DbWait =>
            /\ t \notin mapReaders
            /\ mapWriter # t
            /\ \A i \in DOMAIN heap : heap[i].writer # t

\* update_pk has written the record under its lock and now awaits the
\* database, while another task awaits the database inside get.
C9_Witness ==
    \E t, u \in Tasks :
        /\ tk[t].pc \in {"upd_insert", "upd_update"}
        /\ heap[tk[t].hnd].allowed_id = tk[t].aid
        /\ heap[tk[t].hnd].writer = 0
        /\ tk[u].pc = "get_db"

\* -------------------------------------------------------------- C10
\* C10: a failed lookup is a miss.  get and get_allowed_id_with_mac_id return
\* None and leave map and records alone; get_or goes on to its re-check and
\* returns the map's record, a default one if the map had none.
C10_ReadFailureIsAbsent ==
    [][\A t \in Tasks :
         /\ tk[t].pc \in {"get_db", "gba_db"} /\ Moves(t)
               /\ "err" \in {tk'[t].out, last'.out} =>
               /\ map' = map
               /\ heap' = heap
               /\ IF tk[t].op = "get_or"
                  THEN tk'[t].pc = "or_wlock"
                  ELSE OpReturns(t, tk[t].op, tk[t].mac) /\ last'.res = NoInst
         /\ tk[t].pc = "or_wlock" /\ Moves(t) =>
               /\ OpReturns(t, "get_or", tk[t].mac)
               /\ last'.res # NoInst
               /\ last'.res = map'[tk[t].mac]
               /\ map[tk[t].mac] = NoInst => heap'[last'.res] = MacControlDefault
               /\ map[tk[t].mac] # NoInst => map' = map /\ heap' = heap]_vars

\* The store holds the row, the lookup failed, and get returned None.
C10_Witness ==
    /\ last.op = "get"
    /\ last.out = "err"
    /\ last.res = NoInst
    /\ db[last.mac] # NoRow
    /\ ~contains_key(map, last.mac)

\* -------------------------------------------------------------- C11
\* C11: when two or more update_pk calls for m have run concurrently through
\* one handle and all have returned OK, then at the return of the last one the
\* record's allowed_id and the store's allowed_id for m are equal, and equal
\* to the allowed_id of the call that returned last.
C11_LastWriteWins ==
    [][\A t \in Tasks, m \in Macs :
         /\ OpReturns(t, "update_pk", m)
         /\ \A u \in Tasks \ {t} : ~(tk[u].pc \in {"upd_insert", "upd_update"} /\ tk[u].mac = m)
         /\ hist.batch[m].n = 2
         /\ hist.batch[m].ok /\ last'.ret = "OK"
         /\ hist.batch[m].hnd # NoInst
         => /\ heap'[hist.batch[m].hnd].allowed_id = tk[t].aid
            /\ db'[m] = tk[t].aid]_vars

\* -------------------------------------------------------------- C12
\* C12: update_pk issues insert_mac for m only when the store holds no row
\* for m, and update_mac only when it holds one (so at most one insert per
\* mac id succeeds).
C12_InsertOnlyWhenNoRow ==
    [][\A t \in Tasks :
         /\ tk[t].pc = "upd_insert" /\ Moves(t) => db[tk[t].mac] = NoRow
         /\ tk[t].pc = "upd_update" /\ Moves(t) => db[tk[t].mac] # NoRow]_vars

\* -------------------------------------------------------------- C13
\* C13: on a storage hit, the handle get or get_allowed_id_with_mac_id returns
\* is the record instance the same call has put in the map.
C13_ReturnedIsInserted ==
    [][\A t \in Tasks :
         tk[t].pc \in {"get_wlock", "gba_wlock"} /\ Moves(t) =>
            /\ last'.t = t
            /\ last'.res # NoInst
            /\ last'.res = map'[tk[t].mac]]_vars

\* -------------------------------------------------------------- C14
\* C14: no step removes a key from the map, and no step replaces the record
\* instance stored under a key that is present.
C14_NeverRemovedOrReplaced ==
    [][\A m \in Macs : contains_key(map, m) => map'[m] = map[m]]_vars

\* -------------------------------------------------------------- C15
\* Positions at which a task waits for the write lock of the map.
MapWait == {"get_wlock", "gba_wlock", "or_wlock"}

\* Operations whose first statement takes the read lock of the map.
MapReadFirst == {"get", "get_or", "get_in_memory", "is_in_memory"}

\* t holds the write lock of some record.
HoldsRecordLock(hp, t) == \E i \in DOMAIN hp : hp[i].writer = t

\* C15: a task holds no record lock when it takes the map lock or starts to
\* wait for it; the steps of update_pk take no map lock and leave the map
\* alone, and the steps of get, get_allowed_id_with_mac_id and get_or lock no
\* record.
C15_LockOrder ==
    [][\A t \in Tasks : Moves(t) =>
         /\ \/ tk[t].pc \in MapWait
            \/ tk[t].pc = "idle" /\ {tk'[t].op, last'.op} \cap MapReadFirst # {}
            => ~HoldsRecordLock(heap, t)
         /\ tk'[t].pc \in MapWait => ~HoldsRecordLock(heap', t)
         /\ "update_pk" \in {tk[t].op, tk'[t].op} =>
               /\ map' = map
               /\ mapWriter' = mapWriter /\ mapReaders' = mapReaders
               /\ t \notin mapReaders /\ mapWriter # t
         /\ {tk[t].op, tk'[t].op} \cap {"get", "get_or", "get_allowed_id_with_mac_id"} # {} =>
               \A i \in DOMAIN heap : heap'[i] = heap[i]]_vars

\* A task that has written a record through update_pk now waits for the write
\* lock of the map, and the record is unlocked.
C15_Witness ==
    \E t \in Tasks :
        /\ tk[t].pc \in MapWait
        /\ tk[t].handle # NoInst
        /\ heap[tk[t].handle].socket_addr \in Addrs
        /\ heap[tk[t].handle].writer = 0

\* -------------------------------------------------------------- C16
\* C16: a step of update_pk leaves the map and every record but the one it was
\* handed as they are, allocates nothing, and changes in that record the
\* allowed_id and socket_addr fields only (mac_id stays as it was); the
\* database steps of update_pk change no record at all.
C16_RegisterFrame ==
    [][\A t \in Tasks : Moves(t) /\ "update_pk" \in {tk[t].op, tk'[t].op} =>
         LET h == IF tk[t].pc = "idle" THEN tk'[t].hnd ELSE tk[t].hnd IN
         /\ map' = map
         /\ DOMAIN heap' = DOMAIN heap
         /\ \A i \in DOMAIN heap : i # h => heap'[i] = heap[i]
         /\ heap'[h].mac_id = heap[h].mac_id
         /\ heap'[h].writer = heap[h].writer
         /\ tk[t].pc = "idle" =>
               /\ heap'[h].allowed_id = tk'[t].aid
               /\ heap'[h].socket_addr \in Addrs
         /\ tk[t].pc # "idle" => heap'[h] = heap[h]]_vars

\* update_pk has written a new allowed_id into a record loaded from the store,
\* whose mac_id is still that of the row, while a second record exists.
C16_Witness ==
    \E t \in Tasks :
        /\ tk[t].pc = "upd_update"
        /\ heap[tk[t].hnd].mac_id = tk[t].mac
        /\ heap[tk[t].hnd].allowed_id = tk[t].aid
        /\ heap[tk[t].hnd].allowed_id # db[tk[t].mac]
        /\ Len(heap) >= 2

\* -------------------------------------------------------------- C17
\* C17: when get or get_allowed_id_with_mac_id inserts, the record the map
\* then holds under the key carries the mac_id and the allowed_id of the row
\* that was read and the default socket_addr, whether or not the key was
\* present before.
C17_InsertedCarriesRow ==
    [][\A t \in Tasks :
         tk[t].pc \in {"get_wlock", "gba_wlock"} /\ Moves(t) =>
            /\ contains_key(map', tk[t].mac)
            /\ heap'[map'[tk[t].mac]].mac_id = tk[t].mac
            /\ heap'[map'[tk[t].mac]].allowed_id = tk[t].v
            /\ heap'[map'[tk[t].mac]].socket_addr = DefaultAddr]_vars

\* get_allowed_id_with_mac_id has inserted a record built from the row under
\* a key that already had a record, one that update_pk had written to.
C17_Witness ==
    /\ last.op = "get_allowed_id_with_mac_id"
    /\ last.res # NoInst
    /\ heap[map[last.mac]].allowed_id = db[last.mac]
    /\ heap[map[last.mac]].socket_addr = DefaultAddr
    /\ \E i \in DOMAIN heap : heap[i].socket_addr \in Addrs

\* -------------------------------------------------------------- C18
\* C18: get_in_memory and is_in_memory return in the step that reads the map,
\* without a database call, and leave map, records and store as they are;
\* get_in_memory(m) returns the map's entry for m, and is_in_memory(m) is true
\* exactly when the map has one, that is when get_in_memory(m) returns Some.
C18_InMemoryLookupsArePure ==
    [][\A t \in Tasks, m \in Macs :
         /\ tk[t].pc = "idle" /\ last'.t = t
               /\ last'.op \in {"get_in_memory", "is_in_memory"} =>
               /\ map' = map /\ heap' = heap /\ db' = db
               /\ tk'[t].pc = "idle"
               /\ last'.out = "none"
         /\ OpReturns(t, "get_in_memory", m) => last'.res = map[m]
         /\ OpReturns(t, "is_in_memory", m) => (last'.isin <=> map[m] # NoInst)]_vars

\* is_in_memory has answered false for a mac id that has a row in the store.
C18_Witness ==
    /\ last.op = "is_in_memory"
    /\ ~last.isin
    /\ db[last.mac] # NoRow
    /\ map[last.mac] = NoInst

\* -------------------------------------------------------------- C19
\* C19: under a fair scheduler every started operation returns (every task is
\* between two calls again and again: no call stays in flight for ever), and
\* get_or always returns a record.
C19_EveryCallReturns ==
    /\ \A t \in Tasks : []<>(tk[t].pc = "idle")
    /\ [][\A t \in Tasks :
            tk[t].op = "get_or" /\ tk'[t].pc = "idle" =>
               /\ tk'[t].handle # NoInst
               /\ \/ tk'[t].handle = map'[tk[t].mac]
                  \/ tk'[t].handle > Len(heap)]_vars

\* Two tasks wait for the write lock of the map at the same time, one of them
\* inside get_or.
C19_Witness ==
    \E t, u \in Tasks :
        /\ t # u
        /\ tk[t].pc = "or_wlock"
        /\ tk[u].pc \in MapWait

\* -------------------------------------------------------------- C20
\* C20: every record the map holds under a key k has a mac_id that is empty
\* or equal to k.
C20_KeyMatchesRecord ==
    \A k \in Macs :
        contains_key(map, k) => heap[map[k]].mac_id \in {EmptyString, k}

\* The map holds under k a record loaded from the store, which carries k, and
\* update_pk has written to that record.
C20_Witness ==
    \E k \in Macs :
        /\ contains_key(map, k)
        /\ heap[map[k]].mac_id = k
        /\ heap[map[k]].socket_addr \in Addrs

====
